---- MODULE Spec2Model ----
(***************************************************************************)
(* Fridge Pro backend: the recipe suggestion handler                       *)
(* (GET /recipes/suggestions, backend/src/routes/recipes.ts) together with *)
(* the handlers that change what it reads: POST /fridge, PUT and DELETE    *)
(* /fridge/:id, POST and DELETE /recipes/:id/favorite, POST /recipes; and  *)
(* the item handlers of the shopping lists.                                *)
(*                                                                         *)
(* The database is the state.  Every handler is one action: it reads the   *)
(* tables, writes them, and leaves its HTTP response in res.               *)
(*                                                                         *)
(*   Spec            the suggestions over a catalog of eleven recipes      *)
(*   SpecFridge      the fridge with quantities, two users writing         *)
(*   SpecObserved    an answer compared with the handler's later results   *)
(*   SpecConcurrent  the suggestion handler step by step, await by await   *)
(*   SpecRanking     a catalog of twelve recipes of different scores       *)
(*   SpecShopping    the items of a shopping list                          *)
(*   SpecLists       the shopping lists and their owners                   *)
(*   SpecCatalog     the catalog and the favorites, recipes deleted        *)
(*   SpecIngredients the ingredient table, ingredients deleted             *)
(*   SpecAuth        authenticateToken before the protected handlers       *)
(***************************************************************************)
EXTENDS Integers, Sequences, FiniteSets, TLC

(***************************************************************************)
(* Bounds of the model.  The first user (the seeded demo account) issues   *)
(* the write requests; both users ask for suggestions.  Favorite requests  *)
(* name one of the first FavoriteReach recipes.                            *)
(***************************************************************************)
NumIngredients == 2
InitialRecipes == 11
MaxCreated == 1
FavoriteReach == 10
MaxQuantity == 3
MaxInterleaved == 2
MaxItems == 2

(***************************************************************************)
(* Program constants.                                                      *)
(***************************************************************************)
ResultLimit == 10

Users == {1, 2}
ActiveUsers == {1}
Ingredients == 1..NumIngredients

\* The rows of the ingredient table the requests of the fridge and of the
\* shopping lists name.
PantryIngredients == {1, 2}

\* An ingredient id no ingredient has.
UnknownIngredientIds == {0}

\* The seeded shopping list.
ShoppingLists == {[id |-> 1, userId |-> 1]}

VARIABLES fridgeItems, recipes, favoriteRecipes, res,
          req, pending, seen, shoppingListItems,
          shoppingLists, ingredients

vars == <<fridgeItems, recipes, favoriteRecipes, res,
          req, pending, seen, shoppingListItems,
          shoppingLists, ingredients>>

Min(a, b) == IF a < b THEN a ELSE b

MathMax(a, b) == IF a > b THEN a ELSE b

(***************************************************************************)
(* The database at start: a populated catalog and, as prisma/seed.ts       *)
(* leaves it, fridge items for the first user only and no favorite.  The   *)
(* scoring code handles a recipe without ingredient lines explicitly       *)
(* (totalIngredients > 0 ? ... : 0), so the catalog holds one; it also     *)
(* holds recipes that repeat an ingredient, which POST /recipes accepts.   *)
(***************************************************************************)
InitialIngredientLines ==
    << <<1>>, <<1, 2>>, <<2>>, <<1, 1, 2>>, <<>>, <<2, 2>>, <<1, 2, 2>> >>

InitialRecipe(i) ==
    [id |-> i,
     ingredients |->
        InitialIngredientLines[((i - 1) % Len(InitialIngredientLines)) + 1],
     createdById |-> 2,
     source |-> "imported"]

InitialCatalog == [i \in 1..InitialRecipes |-> InitialRecipe(i)]

InitialFridgeItems == {[userId |-> 1, ingredientId |-> 1]}

(***************************************************************************)
(* Request bodies of POST /recipes (createRecipeSchema: at least one       *)
(* ingredient line, no uniqueness among the lines).                        *)
(***************************************************************************)
RecipeBodies == { <<1, 1>> }

\* A recipe id no recipe has.
UnknownRecipeIds == {0}

NoResponse == [route |-> "none", userId |-> 0, status |-> 0, suggestions |-> <<>>]

\* The response of a handler other than GET /recipes/suggestions: its status.
Reply(status) ==
    [route |-> "other", userId |-> 0, status |-> status, suggestions |-> <<>>]

(***************************************************************************)
(* GET /recipes/suggestions                                                *)
(***************************************************************************)
\* Variant: findMany without the where: { userId } clause.
availableIngredientIds_AnyUser(u) ==
    {it.ingredientId : it \in fridgeItems}

\* Variant: only the items whose quantity reaches 2 count as available.
availableIngredientIds_InStock(u) ==
    {it.ingredientId : it \in {x \in fridgeItems : x.userId = u /\ x.quantity >= 2}}

availableIngredientIds(u) ==
    {it.ingredientId : it \in {x \in fridgeItems : x.userId = u}}

\* Variant: findMany without the where: { userId } clause.
favoriteIdsSet_AnyUser(u) ==
    {f.recipeId : f \in favoriteRecipes}

favoriteIdsSet(u) ==
    {f.recipeId : f \in {x \in favoriteRecipes : x.userId = u}}

\* prisma.recipe.findMany({ where: { id: { in: Array.from(favoriteIdsSet) } } })
favoriteRecipesOf(u) ==
    LET InFavorites(r) == r.id \in favoriteIdsSet(u)
    IN  SelectSeq(recipes, InFavorites)

allRecipes == recipes

CountLines(lines, Keep(_)) == Cardinality({i \in 1..Len(lines) : Keep(lines[i])})

\* Variant: counts the distinct ingredients held instead of the lines.
availableIngredients_Distinct(recipe, u) ==
    Cardinality({ing \in availableIngredientIds(u) :
        \E i \in 1..Len(recipe.ingredients) : recipe.ingredients[i] = ing})

availableIngredients(recipe, u) ==
    LET Held(ing) == ing \in availableIngredientIds(u)
    IN  CountLines(recipe.ingredients, Held)

\* Variant: counts the distinct ingredients lacking instead of the lines.
missingIngredients_Distinct(recipe, u) ==
    Cardinality({ing \in Ingredients \ availableIngredientIds(u) :
        \E i \in 1..Len(recipe.ingredients) : recipe.ingredients[i] = ing})

missingIngredients(recipe, u) ==
    LET NotHeld(ing) == ing \notin availableIngredientIds(u)
    IN  CountLines(recipe.ingredients, NotHeld)

\* Variant: divides by the number of distinct ingredients of the recipe
\* instead of the number of its lines.
score_OverDistinctTotal(recipe, u) ==
    LET distinctIngredients ==
            Cardinality({recipe.ingredients[i] : i \in 1..Len(recipe.ingredients)})
    IN  IF distinctIngredients > 0
        THEN [num |-> availableIngredients(recipe, u) * 100, den |-> distinctIngredients]
        ELSE [num |-> 0, den |-> 1]

\* score is a JavaScript number; it is kept here as the exact fraction
\* num / den.  The double (a / t) * 100 orders as the fraction does, and
\* rounds as it does for the recipe sizes of this model (a double can fall
\* just under a half the fraction reaches, e.g. 23 / 40 * 100).
score(recipe, u) ==
    LET totalIngredients == Len(recipe.ingredients)
    IN  IF totalIngredients > 0
        THEN [num |-> availableIngredients(recipe, u) * 100, den |-> totalIngredients]
        ELSE [num |-> 0, den |-> 1]

scoredRecipes(u) ==
    [i \in 1..Len(allRecipes) |->
        [recipe |-> allRecipes[i],
         score |-> score(allRecipes[i], u),
         missingIngredients |-> missingIngredients(allRecipes[i], u)]]

\* Math.round: to the nearest integer, halves upwards.
MathRound(q) == (2 * q.num + q.den) \div (2 * q.den)

ScorePositive(q) == q.num > 0

\* Variant: the comparator a.score - b.score, which sorts ascending.
ScoreGreater_Ascending(b, a) == b.num * a.den < a.num * b.den

\* b.score - a.score > 0: the comparator puts b before a.
ScoreGreater(b, a) == b.num * a.den > a.num * b.den

favoriteEntry(recipe) ==
    [id |-> recipe.id,
     isFavorite |-> TRUE,
     compatibilityScore |-> 100,
     missingIngredientsCount |-> 0]

favoriteRecipesPayload(u) ==
    LET favs == favoriteRecipesOf(u)
    IN  [i \in 1..Len(favs) |-> favoriteEntry(favs[i])]

RECURSIVE InsertByScore(_, _)
InsertByScore(x, s) ==
    IF s = <<>> THEN <<x>>
    ELSE IF ScoreGreater(x.score, Head(s).score) THEN <<x>> \o s
    ELSE <<Head(s)>> \o InsertByScore(x, Tail(s))

\* Variant: the list is sliced without having been sorted.
SortByScore_Unsorted(s) == s

\* Array.prototype.sort with (a, b) => b.score - a.score: stable, descending.
RECURSIVE SortByScore(_)
SortByScore(s) ==
    IF s = <<>> THEN <<>>
    ELSE InsertByScore(s[Len(s)], SortByScore(SubSeq(s, 1, Len(s) - 1)))

Slice(s, n) == SubSeq(s, 1, Min(n, Len(s)))

\* Variant: the filter without score > 0.
suggestionFilter_AnyScore(sr, u) == sr.recipe.id \notin favoriteIdsSet(u)

suggestionFilter(sr, u) == ScorePositive(sr.score) /\ sr.recipe.id \notin favoriteIdsSet(u)

\* Variant: no slice, the whole sorted list is mapped.
suggestionSliceEnd_NoLimit(u) == Len(allRecipes)

\* Variant: slice(0, 10), the favorites not deducted.
suggestionSliceEnd_FavoritesNotDeducted(u) == ResultLimit

suggestionSliceEnd(u) == MathMax(ResultLimit - Len(favoriteRecipesPayload(u)), 0)

\* Variant: isFavorite: recipe.favoriteRecipes.length >= 0, which is always true.
suggestionEntry_FavoriteLengthNonNegative(sr, u) ==
    [id |-> sr.recipe.id,
     isFavorite |-> TRUE,
     compatibilityScore |-> MathRound(sr.score),
     missingIngredientsCount |-> sr.missingIngredients]

suggestionEntry(sr, u) ==
    [id |-> sr.recipe.id,
     isFavorite |-> \E f \in favoriteRecipes :
                        f.userId = u /\ f.recipeId = sr.recipe.id,
     compatibilityScore |-> MathRound(sr.score),
     missingIngredientsCount |-> sr.missingIngredients]

suggestions(u) ==
    LET Keep(sr) == suggestionFilter(sr, u)
        kept == SelectSeq(scoredRecipes(u), Keep)
        top == Slice(SortByScore(kept), suggestionSliceEnd(u))
    IN  [i \in 1..Len(top) |-> suggestionEntry(top[i], u)]

combinedSuggestions(u) ==
    Slice(favoriteRecipesPayload(u) \o suggestions(u), ResultLimit)

\* res.json({ success: true, data: { suggestions } })
suggestionsBody(u) == suggestions(u)

\* data.suggestions of the response: [] on the early return, else the body.
responseSuggestions(u) ==
    IF availableIngredientIds(u) = {} THEN <<>> ELSE suggestionsBody(u)

\* Variant: the handler also clears the favorite marks it has read.
GetSuggestions_ClearingFavorites(u) ==
    /\ res' = [route |-> "GET /recipes/suggestions", userId |-> u, status |-> 200,
               suggestions |-> responseSuggestions(u)]
    /\ favoriteRecipes' = {f \in favoriteRecipes : f.userId # u}
    /\ UNCHANGED <<fridgeItems, recipes>>

GetSuggestions(u) ==
    /\ res' = [route |-> "GET /recipes/suggestions", userId |-> u, status |-> 200,
               suggestions |-> responseSuggestions(u)]
    /\ UNCHANGED <<fridgeItems, recipes, favoriteRecipes>>

(***************************************************************************)
(* POST /fridge, DELETE /fridge/:id.  Of a fridge item the model keeps its *)
(* owner and its ingredient; quantity, unit, expiry date and notes are     *)
(* read by no handler modelled here.                                       *)
(***************************************************************************)
PostFridge(u, ingredientId) ==
    LET existingItem == {it \in fridgeItems :
                            it.userId = u /\ it.ingredientId = ingredientId}
    IN  IF existingItem # {}
        THEN /\ res' = Reply(200)
             /\ UNCHANGED <<fridgeItems, recipes, favoriteRecipes>>
        ELSE /\ fridgeItems' = fridgeItems \cup
                    {[userId |-> u, ingredientId |-> ingredientId]}
             /\ res' = Reply(201)
             /\ UNCHANGED <<recipes, favoriteRecipes>>

\* The item id of the URL is the (owner, ingredient) pair of the item.
DeleteFridge(u, owner, ingredientId) ==
    LET existingItem == {it \in fridgeItems :
                            it.userId = owner /\ it.ingredientId = ingredientId}
    IN  IF existingItem = {} \/ owner # u
        THEN /\ res' = Reply(404)
             /\ UNCHANGED <<fridgeItems, recipes, favoriteRecipes>>
        ELSE /\ fridgeItems' = fridgeItems \ existingItem
             /\ res' = Reply(200)
             /\ UNCHANGED <<recipes, favoriteRecipes>>

(***************************************************************************)
(* POST /recipes/:id/favorite, DELETE /recipes/:id/favorite                *)
(***************************************************************************)
RecipeExists(id) == \E i \in 1..Len(recipes) : recipes[i].id = id

\* Variant: the favorite is created without looking for an existing one.
PostFavorite_Unchecked(u, id) ==
    IF ~RecipeExists(id)
    THEN /\ res' = Reply(404)
         /\ UNCHANGED <<fridgeItems, recipes, favoriteRecipes>>
    ELSE /\ favoriteRecipes' = favoriteRecipes \cup {[userId |-> u, recipeId |-> id]}
         /\ res' = Reply(200)
         /\ UNCHANGED <<fridgeItems, recipes>>

PostFavorite(u, id) ==
    IF ~RecipeExists(id)
    THEN /\ res' = Reply(404)
         /\ UNCHANGED <<fridgeItems, recipes, favoriteRecipes>>
    ELSE IF [userId |-> u, recipeId |-> id] \in favoriteRecipes
    THEN /\ res' = Reply(400)
         /\ UNCHANGED <<fridgeItems, recipes, favoriteRecipes>>
    ELSE /\ favoriteRecipes' = favoriteRecipes \cup {[userId |-> u, recipeId |-> id]}
         /\ res' = Reply(200)
         /\ UNCHANGED <<fridgeItems, recipes>>

DeleteFavorite(u, id) ==
    IF [userId |-> u, recipeId |-> id] \notin favoriteRecipes
    THEN /\ res' = Reply(404)
         /\ UNCHANGED <<fridgeItems, recipes, favoriteRecipes>>
    ELSE /\ favoriteRecipes' = favoriteRecipes \ {[userId |-> u, recipeId |-> id]}
         /\ res' = Reply(200)
         /\ UNCHANGED <<fridgeItems, recipes>>

(***************************************************************************)
(* POST /recipes                                                           *)
(***************************************************************************)
PostRecipe(u, ingredientLines) ==
    /\ Len(recipes) < InitialRecipes + MaxCreated
    /\ recipes' = Append(recipes,
            [id |-> Len(recipes) + 1,
             ingredients |-> ingredientLines,
             createdById |-> u,
             source |-> "user"])
    /\ res' = Reply(201)
    /\ UNCHANGED <<fridgeItems, favoriteRecipes>>

\* The last request received: none yet.
NoRequest == [route |-> "none", userId |-> 0, ingredientId |-> 0, quantity |-> 0]

\* No GET /recipes/suggestions request is being handled.
NoPending == [pc |-> "idle"]

\* No answer to GET /recipes/suggestions has been recorded.
NotSeen == [userId |-> 0]

Init ==
    /\ fridgeItems = InitialFridgeItems
    /\ recipes = InitialCatalog
    /\ favoriteRecipes = {}
    /\ res = NoResponse
    /\ req = NoRequest
    /\ pending = NoPending
    /\ seen = NotSeen
    /\ shoppingListItems = {}
    /\ shoppingLists = ShoppingLists
    /\ ingredients = PantryIngredients

Next ==
    \/ \E u \in Users :
            GetSuggestions(u) /\ UNCHANGED <<req, pending, seen, shoppingListItems,
                                             shoppingLists, ingredients>>
    \/ \E u \in ActiveUsers, ing \in Ingredients :
            PostFridge(u, ing) /\ UNCHANGED <<req, pending, seen, shoppingListItems,
                                              shoppingLists, ingredients>>
    \/ \E u \in ActiveUsers, owner \in Users, ing \in Ingredients :
            DeleteFridge(u, owner, ing)
                /\ UNCHANGED <<req, pending, seen, shoppingListItems,
                               shoppingLists, ingredients>>
    \/ \E u \in ActiveUsers, id \in (1..FavoriteReach) \cup UnknownRecipeIds :
            PostFavorite(u, id) /\ UNCHANGED <<req, pending, seen, shoppingListItems,
                                               shoppingLists, ingredients>>
    \/ \E u \in ActiveUsers, id \in (1..FavoriteReach) \cup UnknownRecipeIds :
            DeleteFavorite(u, id) /\ UNCHANGED <<req, pending, seen, shoppingListItems,
                                                 shoppingLists, ingredients>>
    \/ \E u \in ActiveUsers, body \in RecipeBodies :
            PostRecipe(u, body) /\ UNCHANGED <<req, pending, seen, shoppingListItems,
                                               shoppingLists, ingredients>>

Spec == Init /\ [][Next]_vars

(***************************************************************************)
(* The fridge with its quantities.  Both users write; a fridge item is its *)
(* owner, its ingredient and its quantity (unit, expiry date and notes are *)
(* stored beside the quantity and read by no handler modelled here).  The  *)
(* item id of a URL is the (owner, ingredient) pair of the item, which the *)
(* schema keeps unique (userId_ingredientId, ai.ts:129).                   *)
(***************************************************************************)
PostedQuantities == 1..MaxQuantity

\* Recipes users may mark in this specification.
MarkableRecipeIds == {1}

\* The ingredients each user's fridge requests name: the first user any
\* ingredient, the second user one ingredient.
RequestedIngredients(u) == IF u \in ActiveUsers THEN PantryIngredients ELSE {2}

FridgeCatalogLines == << <<1>>, <<1, 2>>, <<2>>, <<1, 1, 2>> >>

FridgeCatalog ==
    [i \in 1..Len(FridgeCatalogLines) |->
        [id |-> i,
         ingredients |-> FridgeCatalogLines[i],
         createdById |-> 2,
         source |-> "imported"]]

InitialFridgeQuantities == {[userId |-> 1, ingredientId |-> 1, quantity |-> 1]}

Request(route, u, ingredientId, quantity) ==
    [route |-> route, userId |-> u, ingredientId |-> ingredientId,
     quantity |-> quantity]

\* Variant: the update stores body.quantity instead of adding it.
PostFridgeQuantity_Overwriting(u, ingredientId, quantity) ==
    LET existingItem == {it \in fridgeItems :
                            it.userId = u /\ it.ingredientId = ingredientId}
    IN  IF ingredientId \notin ingredients
        THEN /\ res' = Reply(404)
             /\ UNCHANGED <<fridgeItems, recipes, favoriteRecipes>>
        ELSE IF existingItem # {}
        THEN /\ fridgeItems' = (fridgeItems \ existingItem) \cup
                    {[it EXCEPT !.quantity = quantity] : it \in existingItem}
             /\ res' = Reply(200)
             /\ UNCHANGED <<recipes, favoriteRecipes>>
        ELSE /\ fridgeItems' = fridgeItems \cup
                    {[userId |-> u, ingredientId |-> ingredientId,
                      quantity |-> quantity]}
             /\ res' = Reply(201)
             /\ UNCHANGED <<recipes, favoriteRecipes>>

\* POST /fridge, with the quantities.  The stored quantity is kept within
\* MaxQuantity: a request that would exceed it is not issued.
PostFridgeQuantity(u, ingredientId, quantity) ==
    LET existingItem == {it \in fridgeItems :
                            it.userId = u /\ it.ingredientId = ingredientId}
    IN  IF ingredientId \notin ingredients
        THEN /\ res' = Reply(404)
             /\ UNCHANGED <<fridgeItems, recipes, favoriteRecipes>>
        ELSE IF existingItem # {}
        THEN /\ \A it \in existingItem : it.quantity + quantity <= MaxQuantity
             /\ fridgeItems' = (fridgeItems \ existingItem) \cup
                    {[it EXCEPT !.quantity = it.quantity + quantity] :
                        it \in existingItem}
             /\ res' = Reply(200)
             /\ UNCHANGED <<recipes, favoriteRecipes>>
        ELSE /\ fridgeItems' = fridgeItems \cup
                    {[userId |-> u, ingredientId |-> ingredientId,
                      quantity |-> quantity]}
             /\ res' = Reply(201)
             /\ UNCHANGED <<recipes, favoriteRecipes>>

\* A quantity fridgeItemSchema rejects.
InvalidQuantities == {0}

\* The request of PUT or DELETE /fridge/:id: the id of the URL names the item
\* of owner for the ingredient.
ItemRequest(route, u, owner, ingredientId, quantity) ==
    [route |-> route, userId |-> u, ownerId |-> owner,
     ingredientId |-> ingredientId, quantity |-> quantity]

\* Variant: the item is updated whoever asks.
PutFridge_AnyRequester(u, owner, ingredientId, quantity) ==
    LET existingItem == {it \in fridgeItems :
                            it.userId = owner /\ it.ingredientId = ingredientId}
    IN  IF quantity <= 0
        THEN /\ res' = Reply(400)
             /\ UNCHANGED <<fridgeItems, recipes, favoriteRecipes>>
        ELSE IF existingItem = {}
        THEN /\ res' = Reply(404)
             /\ UNCHANGED <<fridgeItems, recipes, favoriteRecipes>>
        ELSE /\ fridgeItems' = (fridgeItems \ existingItem) \cup
                    {[it EXCEPT !.quantity = quantity] : it \in existingItem}
             /\ res' = Reply(200)
             /\ UNCHANGED <<recipes, favoriteRecipes>>

\* PUT /fridge/:id with a body that gives the quantity.  The body is parsed
\* before the item is looked up: a quantity that is not positive answers 400.
PutFridge(u, owner, ingredientId, quantity) ==
    LET existingItem == {it \in fridgeItems :
                            it.userId = owner /\ it.ingredientId = ingredientId}
    IN  IF quantity <= 0
        THEN /\ res' = Reply(400)
             /\ UNCHANGED <<fridgeItems, recipes, favoriteRecipes>>
        ELSE IF existingItem = {} \/ owner # u
        THEN /\ res' = Reply(404)
             /\ UNCHANGED <<fridgeItems, recipes, favoriteRecipes>>
        ELSE /\ fridgeItems' = (fridgeItems \ existingItem) \cup
                    {[it EXCEPT !.quantity = quantity] : it \in existingItem}
             /\ res' = Reply(200)
             /\ UNCHANGED <<recipes, favoriteRecipes>>

InitFridge ==
    /\ fridgeItems = InitialFridgeQuantities
    /\ recipes = FridgeCatalog
    /\ favoriteRecipes = {}
    /\ res = NoResponse
    /\ req = NoRequest
    /\ pending = NoPending
    /\ seen = NotSeen
    /\ shoppingListItems = {}
    /\ shoppingLists = ShoppingLists
    /\ ingredients = PantryIngredients

NextFridge ==
    \/ \E u \in Users :
            /\ GetSuggestions(u)
            /\ req' = Request("GET /recipes/suggestions", u, 0, 0)
            /\ UNCHANGED <<pending, seen, shoppingListItems,
                           shoppingLists, ingredients>>
    \/ \E u \in Users, ing \in PantryIngredients \cup UnknownIngredientIds,
          q \in PostedQuantities :
            /\ ing \in RequestedIngredients(u) \cup UnknownIngredientIds
            /\ PostFridgeQuantity(u, ing, q)
            /\ req' = Request("POST /fridge", u, ing, q)
            /\ UNCHANGED <<pending, seen, shoppingListItems,
                           shoppingLists, ingredients>>
    \/ \E u \in Users, owner \in Users, ing \in PantryIngredients,
          q \in PostedQuantities \cup InvalidQuantities :
            /\ PutFridge(u, owner, ing, q)
            /\ req' = ItemRequest("PUT /fridge/:id", u, owner, ing, q)
            /\ UNCHANGED <<pending, seen, shoppingListItems,
                           shoppingLists, ingredients>>
    \/ \E u \in Users, owner \in Users, ing \in PantryIngredients :
            /\ DeleteFridge(u, owner, ing)
            /\ req' = ItemRequest("DELETE /fridge/:id", u, owner, ing, 0)
            /\ UNCHANGED <<pending, seen, shoppingListItems,
                           shoppingLists, ingredients>>
    \/ \E u \in Users, id \in MarkableRecipeIds :
            /\ PostFavorite(u, id)
            /\ req' = Request("POST /recipes/:id/favorite", u, 0, 0)
            /\ UNCHANGED <<pending, seen, shoppingListItems,
                           shoppingLists, ingredients>>
    \/ \E u \in Users, id \in MarkableRecipeIds :
            /\ DeleteFavorite(u, id)
            /\ req' = Request("DELETE /recipes/:id/favorite", u, 0, 0)
            /\ UNCHANGED <<pending, seen, shoppingListItems,
                           shoppingLists, ingredients>>

SpecFridge == InitFridge /\ [][NextFridge]_vars

(***************************************************************************)
(* Two requests compared.  seen records the last answer of GET             *)
(* /recipes/suggestions together with what the database held for the       *)
(* requester when it was given: the requester's fridge items and favorite  *)
(* recipe ids, and whether the other users had no row.  The requests that  *)
(* follow change the database under it.                                    *)
(***************************************************************************)
ObservedQuantities == {1, 2}

Observation(u) ==
    [userId |-> u,
     items |-> {it \in fridgeItems : it.userId = u},
     favorites |-> favoriteIdsSet(u),
     alone |-> /\ \A it \in fridgeItems : it.userId = u
               /\ \A f \in favoriteRecipes : f.userId = u,
     suggestions |-> responseSuggestions(u)]

InitObserved == InitFridge

NextObserved ==
    \/ \E u \in Users :
            /\ GetSuggestions(u)
            /\ seen' = Observation(u)
            /\ UNCHANGED <<req, pending, shoppingListItems,
                           shoppingLists, ingredients>>
    \/ \E u \in Users, ing \in PantryIngredients, q \in ObservedQuantities :
            /\ ing \in RequestedIngredients(u)
            /\ PostFridgeQuantity(u, ing, q)
            /\ UNCHANGED <<req, pending, seen, shoppingListItems,
                           shoppingLists, ingredients>>
    \/ \E u \in Users, ing \in PantryIngredients, q \in ObservedQuantities :
            /\ PutFridge(u, u, ing, q)
            /\ UNCHANGED <<req, pending, seen, shoppingListItems,
                           shoppingLists, ingredients>>
    \/ \E u \in Users, ing \in PantryIngredients :
            /\ DeleteFridge(u, u, ing)
            /\ UNCHANGED <<req, pending, seen, shoppingListItems,
                           shoppingLists, ingredients>>
    \/ \E u \in Users, id \in MarkableRecipeIds :
            /\ PostFavorite(u, id)
            /\ UNCHANGED <<req, pending, seen, shoppingListItems,
                           shoppingLists, ingredients>>
    \/ \E u \in Users, id \in MarkableRecipeIds :
            /\ DeleteFavorite(u, id)
            /\ UNCHANGED <<req, pending, seen, shoppingListItems,
                           shoppingLists, ingredients>>

SpecObserved == InitObserved /\ [][NextObserved]_vars

(***************************************************************************)
(* GET /recipes/suggestions as the event loop runs it: the handler awaits  *)
(* three times, and requests of the same user are handled in between.      *)
(*   readFridge       await prisma.fridgeItem.findMany       (line 201)    *)
(*   readFavoriteIds  await prisma.favoriteRecipe.findMany   (line 219)    *)
(*   readRecipes      await Promise.all([...])               (line 273)    *)
(* and then computes and answers without awaiting again.  No query runs in *)
(* a transaction.  The two queries of Promise.all are taken at one         *)
(* instant.  pending holds the handler's locals between the awaits, the    *)
(* number of requests handled meanwhile (at most MaxInterleaved), and in   *)
(* instants the list a handler run at each instant since the request       *)
(* began would have answered.                                              *)
(***************************************************************************)
ConcurrentMarkableIds == {1, 2}

InFlight == pending.pc \in {"readFavoriteIds", "readRecipes"}

\* scoredRecipes over the availableIngredientIds the handler holds.
scoredRecipesFrom(available) ==
    [i \in 1..Len(allRecipes) |->
        LET lines == allRecipes[i].ingredients
            totalIngredients == Len(lines)
            availableLines ==
                Cardinality({k \in 1..Len(lines) : lines[k] \in available})
        IN  [recipe |-> allRecipes[i],
             score |-> IF totalIngredients > 0
                       THEN [num |-> availableLines * 100,
                             den |-> totalIngredients]
                       ELSE [num |-> 0, den |-> 1],
             missingIngredients |->
                Cardinality({k \in 1..Len(lines) : lines[k] \notin available})]]

\* suggestions over the handler's locals: the recipes and the favoriteRecipes
\* relation of each recipe are those of the readRecipes instant.
suggestionsFrom(available, favoriteIds, u) ==
    LET InFavorites(r) == r.id \in favoriteIds
        favoritePayloadLength == Len(SelectSeq(recipes, InFavorites))
        Keep(sr) == ScorePositive(sr.score) /\ sr.recipe.id \notin favoriteIds
        kept == SelectSeq(scoredRecipesFrom(available), Keep)
        top == Slice(SortByScore(kept),
                     MathMax(ResultLimit - favoritePayloadLength, 0))
    IN  [i \in 1..Len(top) |-> suggestionEntry(top[i], u)]

\* The first await: the fridge is read; an empty fridge is answered at once.
GetReadFridge(u) ==
    /\ ~InFlight
    /\ IF availableIngredientIds(u) = {}
       THEN /\ res' = [route |-> "GET /recipes/suggestions", userId |-> u,
                       status |-> 200, suggestions |-> <<>>]
            /\ pending' = [pc |-> "done", userId |-> u,
                           instants |-> {responseSuggestions(u)}]
       ELSE /\ pending' = [pc |-> "readFavoriteIds", userId |-> u,
                           availableIngredientIds |-> availableIngredientIds(u),
                           interleaved |-> 0,
                           instants |-> {responseSuggestions(u)}]
            /\ UNCHANGED res
    /\ UNCHANGED <<fridgeItems, recipes, favoriteRecipes>>

\* The second await: the favorite ids are read.
GetReadFavoriteIds ==
    /\ pending.pc = "readFavoriteIds"
    /\ pending' = [pc |-> "readRecipes", userId |-> pending.userId,
                   availableIngredientIds |-> pending.availableIngredientIds,
                   favoriteIdsSet |-> favoriteIdsSet(pending.userId),
                   interleaved |-> pending.interleaved,
                   instants |-> pending.instants
                                \cup {responseSuggestions(pending.userId)}]
    /\ UNCHANGED <<fridgeItems, recipes, favoriteRecipes, res>>

\* The third await: the recipes are read, and the answer is computed and sent.
GetReadRecipes ==
    /\ pending.pc = "readRecipes"
    /\ res' = [route |-> "GET /recipes/suggestions", userId |-> pending.userId,
               status |-> 200,
               suggestions |-> suggestionsFrom(pending.availableIngredientIds,
                                               pending.favoriteIdsSet,
                                               pending.userId)]
    /\ pending' = [pc |-> "done", userId |-> pending.userId,
                   instants |-> pending.instants
                                \cup {responseSuggestions(pending.userId)}]
    /\ UNCHANGED <<fridgeItems, recipes, favoriteRecipes>>

\* A request handled while GET /recipes/suggestions awaits, or between two
\* of them.
Interleave ==
    IF InFlight
    THEN /\ pending.interleaved < MaxInterleaved
         /\ pending' = [pending EXCEPT
                !.interleaved = @ + 1,
                !.instants = @ \cup {responseSuggestions(pending.userId)}]
    ELSE pending' = NoPending

InitConcurrent ==
    /\ fridgeItems = InitialFridgeItems
    /\ recipes = FridgeCatalog
    /\ favoriteRecipes = {}
    /\ res = NoResponse
    /\ req = NoRequest
    /\ pending = NoPending
    /\ seen = NotSeen
    /\ shoppingListItems = {}
    /\ shoppingLists = ShoppingLists
    /\ ingredients = PantryIngredients

NextConcurrent ==
    \/ \E u \in ActiveUsers :
            GetReadFridge(u) /\ UNCHANGED <<req, seen, shoppingListItems,
                                            shoppingLists, ingredients>>
    \/ GetReadFavoriteIds /\ UNCHANGED <<req, seen, shoppingListItems,
                                         shoppingLists, ingredients>>
    \/ GetReadRecipes /\ UNCHANGED <<req, seen, shoppingListItems,
                                     shoppingLists, ingredients>>
    \/ \E u \in ActiveUsers, ing \in PantryIngredients :
            PostFridge(u, ing) /\ Interleave
                /\ UNCHANGED <<req, seen, shoppingListItems,
                               shoppingLists, ingredients>>
    \/ \E u \in ActiveUsers, ing \in PantryIngredients :
            DeleteFridge(u, u, ing) /\ Interleave
                /\ UNCHANGED <<req, seen, shoppingListItems,
                               shoppingLists, ingredients>>
    \/ \E u \in ActiveUsers, id \in ConcurrentMarkableIds :
            PostFavorite(u, id) /\ Interleave
                /\ UNCHANGED <<req, seen, shoppingListItems,
                               shoppingLists, ingredients>>
    \/ \E u \in ActiveUsers, id \in ConcurrentMarkableIds :
            DeleteFavorite(u, id) /\ Interleave
                /\ UNCHANGED <<req, seen, shoppingListItems,
                               shoppingLists, ingredients>>

SpecConcurrent == InitConcurrent /\ [][NextConcurrent]_vars

(***************************************************************************)
(* A catalog of more than ten recipes that share an ingredient with the    *)
(* fridge in different proportions, so that the limit of ten leaves some   *)
(* of them out.  The first user writes; both users ask for suggestions.    *)
(***************************************************************************)
RankingCatalogLines ==
    << <<1>>, <<1, 2>>, <<2, 1>>, <<1, 1, 2>>, <<1, 2, 2>>, <<1, 2, 2, 2>>,
       <<1, 1, 1, 2>>, <<1>>, <<2, 2, 1>>, <<1, 2>>, <<1, 1, 2>>, <<1>> >>

RankingCatalog ==
    [i \in 1..Len(RankingCatalogLines) |->
        [id |-> i,
         ingredients |-> RankingCatalogLines[i],
         createdById |-> 2,
         source |-> "imported"]]

\* Recipes the first user may mark in this specification.
RankingMarkableIds == {1, 6, 12}

InitRanking ==
    /\ fridgeItems = InitialFridgeItems
    /\ recipes = RankingCatalog
    /\ favoriteRecipes = {}
    /\ res = NoResponse
    /\ req = NoRequest
    /\ pending = NoPending
    /\ seen = NotSeen
    /\ shoppingListItems = {}
    /\ shoppingLists = ShoppingLists
    /\ ingredients = PantryIngredients

NextRanking ==
    \/ \E u \in Users :
            GetSuggestions(u) /\ UNCHANGED <<req, pending, seen, shoppingListItems,
                                             shoppingLists, ingredients>>
    \/ \E u \in ActiveUsers, ing \in PantryIngredients :
            PostFridge(u, ing) /\ UNCHANGED <<req, pending, seen, shoppingListItems,
                                              shoppingLists, ingredients>>
    \/ \E u \in ActiveUsers, owner \in Users, ing \in PantryIngredients :
            DeleteFridge(u, owner, ing)
                /\ UNCHANGED <<req, pending, seen, shoppingListItems,
                               shoppingLists, ingredients>>
    \/ \E u \in ActiveUsers, id \in RankingMarkableIds \cup UnknownRecipeIds :
            PostFavorite(u, id) /\ UNCHANGED <<req, pending, seen, shoppingListItems,
                                               shoppingLists, ingredients>>
    \/ \E u \in ActiveUsers, id \in RankingMarkableIds \cup UnknownRecipeIds :
            DeleteFavorite(u, id) /\ UNCHANGED <<req, pending, seen, shoppingListItems,
                                                 shoppingLists, ingredients>>

SpecRanking == InitRanking /\ [][NextRanking]_vars

(***************************************************************************)
(* Shopping lists: POST /shopping-lists/:id/items, PUT, PATCH and DELETE   *)
(* /shopping-lists/:listId/items/:itemId.  The seeded list belongs to the  *)
(* first user.  An item is its id, its list, its ingredient, its quantity  *)
(* and its purchased flag; a created item takes the lowest id not in use,  *)
(* and at most MaxItems items exist.  No handler and no other code under   *)
(* src/ declares or relies on a uniqueness of (list, ingredient) among the *)
(* items, so prisma.shoppingListItem.update stores what the handler gives. *)
(***************************************************************************)
\* A list id no list has.
UnknownListIds == {0}

\* The ids shopping lists take; a created list takes the lowest id not in use.
ListIds == {1, 2}

ItemIds == 1..MaxItems

\* Bodies of PUT (updateItemSchema: every field optional): given names the
\* fields the body has, the other fields are undefined.
UpdateBodies ==
    {[given |-> {"ingredientId"}, ingredientId |-> ing, quantity |-> 0,
      purchased |-> FALSE] :
        ing \in PantryIngredients \cup UnknownIngredientIds}
    \cup {[given |-> {"quantity"}, ingredientId |-> 0, quantity |-> q,
           purchased |-> FALSE] : q \in {2} \cup InvalidQuantities}
    \cup {[given |-> {"purchased"}, ingredientId |-> 0, quantity |-> 0,
           purchased |-> TRUE]}

\* Bodies of PATCH (toggleItemSchema: purchased is required).
ToggleBodies ==
    {[given |-> {"purchased"}, purchased |-> b] : b \in BOOLEAN}
    \cup {[given |-> {}, purchased |-> FALSE]}

\* addItemSchema.parse and updateItemSchema.parse, on the quantity.
ParsesQuantity(quantity) == quantity > 0

\* The request of a route of /shopping-lists that names a list: who asks,
\* the list and the item of the URL, and whether the body parses.
ListRequest(route, u, listId, itemId, parses) ==
    [route |-> route, userId |-> u, listId |-> listId, itemId |-> itemId,
     parses |-> parses]

\* Variant: the list is found whoever owns it.
ensureListOwner_AnyUser(userId, listId) ==
    {l \in shoppingLists : l.id = listId}

ensureListOwner(userId, listId) ==
    {l \in shoppingLists : l.id = listId /\ l.userId = userId}

\* body.field ?? item.field
Coalesce(body, item, field) ==
    IF field \in body.given THEN body[field] ELSE item[field]

\* POST /shopping-lists with a name.
PostShoppingList(u) ==
    LET free == ListIds \ {l.id : l \in shoppingLists}
    IN  /\ free # {}
        /\ shoppingLists' = shoppingLists \cup
                {[id |-> CHOOSE i \in free : \A j \in free : i <= j,
                  userId |-> u]}
        /\ res' = Reply(201)
        /\ UNCHANGED shoppingListItems

\* GET /shopping-lists/:id
GetShoppingList(u, id) ==
    LET shoppingList == {l \in shoppingLists : l.id = id /\ l.userId = u}
    IN  /\ res' = IF shoppingList = {} THEN Reply(404) ELSE Reply(200)
        /\ UNCHANGED <<shoppingLists, shoppingListItems>>

\* DELETE /shopping-lists/:id.  What prisma.shoppingList.delete does to the
\* items of the list is the schema's choice, and the schema is not among the
\* sources: either the items go with the list, or a list that has items is
\* not deleted and the error reaches the error handler (500).
DeleteShoppingList(u, id) ==
    LET list == ensureListOwner(u, id)
        items == {it \in shoppingListItems : it.shoppingListId = id}
    IN  IF list = {}
        THEN /\ res' = Reply(404)
             /\ UNCHANGED <<shoppingLists, shoppingListItems>>
        ELSE \/ /\ shoppingLists' = shoppingLists \ list
                /\ shoppingListItems' = shoppingListItems \ items
                /\ res' = Reply(200)
             \/ /\ items # {}
                /\ res' = Reply(500)
                /\ UNCHANGED <<shoppingLists, shoppingListItems>>

PostShoppingItem(u, listId, ingredientId, quantity) ==
    LET existingItem == {it \in shoppingListItems :
            it.shoppingListId = listId /\ it.ingredientId = ingredientId}
        free == ItemIds \ {it.id : it \in shoppingListItems}
    IN  IF ~ParsesQuantity(quantity)
        THEN res' = Reply(400) /\ UNCHANGED shoppingListItems
        ELSE IF ensureListOwner(u, listId) = {}
        THEN res' = Reply(404) /\ UNCHANGED shoppingListItems
        ELSE IF ingredientId \notin ingredients
        THEN res' = Reply(404) /\ UNCHANGED shoppingListItems
        ELSE IF existingItem # {}
        THEN \* findFirst: any one of the matching items
             \E found \in existingItem :
                /\ found.quantity + quantity <= MaxQuantity
                /\ shoppingListItems' = (shoppingListItems \ {found}) \cup
                        {[found EXCEPT !.quantity = found.quantity + quantity]}
                /\ res' = Reply(201)
        ELSE /\ free # {}
             /\ shoppingListItems' = shoppingListItems \cup
                    {[id |-> CHOOSE i \in free : \A j \in free : i <= j,
                      shoppingListId |-> listId,
                      ingredientId |-> ingredientId,
                      quantity |-> quantity,
                      purchased |-> FALSE]}
             /\ res' = Reply(201)

PutShoppingItem(u, listId, itemId, body) ==
    LET item == {it \in shoppingListItems :
                    it.id = itemId /\ it.shoppingListId = listId}
    IN  IF "quantity" \in body.given /\ ~ParsesQuantity(body.quantity)
        THEN res' = Reply(400) /\ UNCHANGED shoppingListItems
        ELSE IF ensureListOwner(u, listId) = {}
        THEN res' = Reply(404) /\ UNCHANGED shoppingListItems
        ELSE IF item = {}
        THEN res' = Reply(404) /\ UNCHANGED shoppingListItems
        ELSE IF "ingredientId" \in body.given
                /\ body.ingredientId \notin ingredients
        THEN res' = Reply(404) /\ UNCHANGED shoppingListItems
        ELSE /\ shoppingListItems' = (shoppingListItems \ item) \cup
                    {[id |-> it.id,
                      shoppingListId |-> it.shoppingListId,
                      ingredientId |-> Coalesce(body, it, "ingredientId"),
                      quantity |-> Coalesce(body, it, "quantity"),
                      purchased |-> Coalesce(body, it, "purchased")] :
                        it \in item}
             /\ res' = Reply(200)

PatchShoppingItem(u, listId, itemId, body) ==
    LET item == {it \in shoppingListItems :
                    it.id = itemId /\ it.shoppingListId = listId}
    IN  IF "purchased" \notin body.given
        THEN res' = Reply(400) /\ UNCHANGED shoppingListItems
        ELSE IF ensureListOwner(u, listId) = {}
        THEN res' = Reply(404) /\ UNCHANGED shoppingListItems
        ELSE IF item = {}
        THEN res' = Reply(404) /\ UNCHANGED shoppingListItems
        ELSE /\ shoppingListItems' = (shoppingListItems \ item) \cup
                    {[it EXCEPT !.purchased = body.purchased] : it \in item}
             /\ res' = Reply(200)

DeleteShoppingItem(u, listId, itemId) ==
    LET item == {it \in shoppingListItems :
                    it.id = itemId /\ it.shoppingListId = listId}
    IN  IF ensureListOwner(u, listId) = {}
        THEN res' = Reply(404) /\ UNCHANGED shoppingListItems
        ELSE IF item = {}
        THEN res' = Reply(404) /\ UNCHANGED shoppingListItems
        ELSE /\ shoppingListItems' = shoppingListItems \ item
             /\ res' = Reply(200)

InitShopping ==
    /\ fridgeItems = InitialFridgeItems
    /\ recipes = FridgeCatalog
    /\ favoriteRecipes = {}
    /\ res = NoResponse
    /\ req = NoRequest
    /\ pending = NoPending
    /\ seen = NotSeen
    /\ shoppingListItems = {}
    /\ shoppingLists = ShoppingLists
    /\ ingredients = PantryIngredients

NextShopping ==
    \/ \E u \in Users, listId \in ListIds \cup UnknownListIds,
          ing \in PantryIngredients \cup UnknownIngredientIds :
            /\ PostShoppingItem(u, listId, ing, 1)
            /\ UNCHANGED <<fridgeItems, recipes, favoriteRecipes, req,
                           pending, seen, shoppingLists, ingredients>>
    \/ \E u \in Users, listId \in ListIds \cup UnknownListIds,
          itemId \in ItemIds, body \in UpdateBodies :
            /\ PutShoppingItem(u, listId, itemId, body)
            /\ UNCHANGED <<fridgeItems, recipes, favoriteRecipes, req,
                           pending, seen, shoppingLists, ingredients>>
    \/ \E u \in Users, listId \in ListIds \cup UnknownListIds,
          itemId \in ItemIds, body \in ToggleBodies :
            /\ PatchShoppingItem(u, listId, itemId, body)
            /\ UNCHANGED <<fridgeItems, recipes, favoriteRecipes, req,
                           pending, seen, shoppingLists, ingredients>>
    \/ \E u \in Users, listId \in ListIds \cup UnknownListIds,
          itemId \in ItemIds :
            /\ DeleteShoppingItem(u, listId, itemId)
            /\ UNCHANGED <<fridgeItems, recipes, favoriteRecipes, req,
                           pending, seen, shoppingLists, ingredients>>

SpecShopping == InitShopping /\ [][NextShopping]_vars

(***************************************************************************)
(* Shopping lists and their owners: the routes of /shopping-lists that     *)
(* name a list, with the lists created and deleted, the request recorded   *)
(* in req, and bodies that parse or not.  The items are of one ingredient. *)
(***************************************************************************)
ListedIngredients == {1}

\* Bodies of PUT here: one that parses and one that does not.
ListUpdateBodies == {b \in UpdateBodies : b.given # {"ingredientId"}}

\* Bodies of PATCH here.
ListToggleBodies == {b \in ToggleBodies : b.purchased = ("purchased" \in b.given)}

InitLists == InitShopping

NextLists ==
    \/ \E u \in Users :
            /\ PostShoppingList(u)
            /\ req' = ListRequest("POST /shopping-lists", u, 0, 0, TRUE)
            /\ UNCHANGED <<fridgeItems, recipes, favoriteRecipes,
                           pending, seen, ingredients>>
    \/ \E u \in Users, listId \in ListIds \cup UnknownListIds :
            /\ GetShoppingList(u, listId)
            /\ req' = ListRequest("GET /shopping-lists/:id", u, listId, 0, TRUE)
            /\ UNCHANGED <<fridgeItems, recipes, favoriteRecipes,
                           pending, seen, ingredients>>
    \/ \E u \in Users, listId \in ListIds \cup UnknownListIds :
            /\ DeleteShoppingList(u, listId)
            /\ req' = ListRequest("DELETE /shopping-lists/:id", u, listId, 0,
                                  TRUE)
            /\ UNCHANGED <<fridgeItems, recipes, favoriteRecipes,
                           pending, seen, ingredients>>
    \/ \E u \in Users, listId \in ListIds \cup UnknownListIds,
          ing \in ListedIngredients, q \in {1} \cup InvalidQuantities :
            /\ PostShoppingItem(u, listId, ing, q)
            /\ req' = ListRequest("POST /shopping-lists/:id/items", u, listId,
                                  0, ParsesQuantity(q))
            /\ UNCHANGED <<fridgeItems, recipes, favoriteRecipes,
                           pending, seen, shoppingLists, ingredients>>
    \/ \E u \in Users, listId \in ListIds \cup UnknownListIds,
          itemId \in ItemIds, body \in ListUpdateBodies :
            /\ PutShoppingItem(u, listId, itemId, body)
            /\ req' = ListRequest("PUT /shopping-lists/:listId/items/:itemId",
                                  u, listId, itemId,
                                  "quantity" \in body.given
                                      => ParsesQuantity(body.quantity))
            /\ UNCHANGED <<fridgeItems, recipes, favoriteRecipes,
                           pending, seen, shoppingLists, ingredients>>
    \/ \E u \in Users, listId \in ListIds \cup UnknownListIds,
          itemId \in ItemIds, body \in ListToggleBodies :
            /\ PatchShoppingItem(u, listId, itemId, body)
            /\ req' = ListRequest("PATCH /shopping-lists/:listId/items/:itemId",
                                  u, listId, itemId,
                                  "purchased" \in body.given)
            /\ UNCHANGED <<fridgeItems, recipes, favoriteRecipes,
                           pending, seen, shoppingLists, ingredients>>
    \/ \E u \in Users, listId \in ListIds \cup UnknownListIds,
          itemId \in ItemIds :
            /\ DeleteShoppingItem(u, listId, itemId)
            /\ req' = ListRequest("DELETE /shopping-lists/:listId/items/:itemId",
                                  u, listId, itemId, TRUE)
            /\ UNCHANGED <<fridgeItems, recipes, favoriteRecipes,
                           pending, seen, shoppingLists, ingredients>>

SpecLists == InitLists /\ [][NextLists]_vars

(***************************************************************************)
(* The catalog and the favorites: GET /recipes, DELETE /recipes/:id, POST  *)
(* and DELETE /recipes/:id/favorite, on recipes of both users and of every *)
(* source, with the request recorded in req.  A favorite is its (user,     *)
(* recipe) pair, which the schema keeps unique: the handlers read and      *)
(* delete favorites by the compound key userId_recipeId.                   *)
(***************************************************************************)
CatalogLines == << <<1>>, <<1, 2>>, <<1, 1>>, <<2>>, <<1>> >>

CatalogCreators == <<2, 1, 1, 2, 1>>

CatalogSources == <<"imported", "user", "ai_generated", "user", "imported">>

MixedCatalog ==
    [i \in 1..Len(CatalogLines) |->
        [id |-> i,
         ingredients |-> CatalogLines[i],
         createdById |-> CatalogCreators[i],
         source |-> CatalogSources[i]]]

\* Recipes the favorite requests name.
CatalogMarkableIds == {1, 4}

\* A value of req.query as Express hands it to the handler: text.
QueryValue(text) == [type |-> "string", text |-> text]

\* Queries of GET /recipes: without makeable, and with makeable=true.
RecipeQueries ==
    {[given |-> {}, makeable |-> QueryValue("")],
     [given |-> {"makeable"}, makeable |-> QueryValue("true")]}

\* z.boolean() accepts a boolean and nothing else.
ZodBoolean(v) == v.type = "boolean"

\* if (makeable)
Truthy(v) == IF v.type = "boolean" THEN v.text = "true" ELSE v.text # ""

RecipeRequest(route, u, id, query) ==
    [route |-> route, userId |-> u, recipeId |-> id, query |-> query]

\* The recipes the makeable filter keeps: every line names a held ingredient.
recipeIds(u) ==
    {recipes[i].id : i \in
        {j \in DOMAIN recipes :
            \A n \in DOMAIN recipes[j].ingredients :
                recipes[j].ingredients[n] \in availableIngredientIds(u)}}

\* GET /recipes: filterSchema.parse(req.query), then the listing.
GetRecipes(u, query) ==
    IF "makeable" \in query.given /\ ~ZodBoolean(query.makeable)
    THEN /\ res' = Reply(400)
         /\ UNCHANGED <<fridgeItems, recipes, favoriteRecipes>>
    ELSE /\ res' = [route |-> "GET /recipes", userId |-> u, status |-> 200,
                    recipes |->
                        IF "makeable" \in query.given
                              /\ Truthy(query.makeable)
                        THEN recipeIds(u)
                        ELSE {recipes[i].id : i \in DOMAIN recipes}]
         /\ UNCHANGED <<fridgeItems, recipes, favoriteRecipes>>

\* Variant: the creator may delete a recipe of any source.
DeleteRecipe_AnySource(u, id) ==
    LET recipe == {recipes[i] : i \in {j \in DOMAIN recipes : recipes[j].id = id}}
    IN  IF recipe = {}
        THEN /\ res' = Reply(404)
             /\ UNCHANGED <<fridgeItems, recipes, favoriteRecipes>>
        ELSE IF \E r \in recipe : r.createdById # u
        THEN /\ res' = Reply(403)
             /\ UNCHANGED <<fridgeItems, recipes, favoriteRecipes>>
        ELSE /\ recipes' = SelectSeq(recipes, LAMBDA r : r.id # id)
             /\ favoriteRecipes' = {f \in favoriteRecipes : f.recipeId # id}
             /\ res' = Reply(200)
             /\ UNCHANGED fridgeItems

\* DELETE /recipes/:id.  What prisma.recipe.delete does to the ingredient
\* lines and to the favorites of the recipe is the schema's choice, and the
\* schema is not among the sources: either they go with the recipe, or the
\* recipe is not deleted and the error reaches the error handler (500).
DeleteRecipe(u, id) ==
    LET recipe == {recipes[i] : i \in {j \in DOMAIN recipes : recipes[j].id = id}}
    IN  IF recipe = {}
        THEN /\ res' = Reply(404)
             /\ UNCHANGED <<fridgeItems, recipes, favoriteRecipes>>
        ELSE IF \E r \in recipe :
                    \/ r.createdById # u
                    \/ (r.source # "ai_generated" /\ r.source # "user")
        THEN /\ res' = Reply(403)
             /\ UNCHANGED <<fridgeItems, recipes, favoriteRecipes>>
        ELSE \/ /\ recipes' = SelectSeq(recipes, LAMBDA r : r.id # id)
                /\ favoriteRecipes' = {f \in favoriteRecipes : f.recipeId # id}
                /\ res' = Reply(200)
                /\ UNCHANGED fridgeItems
             \/ /\ res' = Reply(500)
                /\ UNCHANGED <<fridgeItems, recipes, favoriteRecipes>>

InitCatalog ==
    /\ fridgeItems = InitialFridgeItems
    /\ recipes = MixedCatalog
    /\ favoriteRecipes = {}
    /\ res = NoResponse
    /\ req = NoRequest
    /\ pending = NoPending
    /\ seen = NotSeen
    /\ shoppingListItems = {}
    /\ shoppingLists = ShoppingLists
    /\ ingredients = PantryIngredients

NextCatalog ==
    \/ \E u \in Users, query \in RecipeQueries :
            /\ GetRecipes(u, query)
            /\ req' = RecipeRequest("GET /recipes", u, 0, query)
            /\ UNCHANGED <<pending, seen, shoppingListItems,
                           shoppingLists, ingredients>>
    \/ \E u \in Users, id \in DOMAIN MixedCatalog \cup UnknownRecipeIds :
            /\ DeleteRecipe(u, id)
            /\ req' = RecipeRequest("DELETE /recipes/:id", u, id,
                                    [given |-> {}])
            /\ UNCHANGED <<pending, seen, shoppingListItems,
                           shoppingLists, ingredients>>
    \/ \E u \in Users, id \in CatalogMarkableIds \cup UnknownRecipeIds :
            /\ PostFavorite(u, id)
            /\ req' = RecipeRequest("POST /recipes/:id/favorite", u, id,
                                    [given |-> {}])
            /\ UNCHANGED <<pending, seen, shoppingListItems,
                           shoppingLists, ingredients>>
    \/ \E u \in Users, id \in CatalogMarkableIds \cup UnknownRecipeIds :
            /\ DeleteFavorite(u, id)
            /\ req' = RecipeRequest("DELETE /recipes/:id/favorite", u, id,
                                    [given |-> {}])
            /\ UNCHANGED <<pending, seen, shoppingListItems,
                           shoppingLists, ingredients>>

SpecCatalog == InitCatalog /\ [][NextCatalog]_vars

(***************************************************************************)
(* The ingredient table: DELETE /ingredients/:id beside the requests that  *)
(* make fridge items and shopping-list items.  The one recipe of this      *)
(* catalog needs the first ingredient only.  An ingredient id is never     *)
(* given twice, so a deleted ingredient does not come back.  What          *)
(* prisma.ingredient.delete does to shopping-list items that reference the *)
(* ingredient is the schema's choice, and the schema is not among the      *)
(* sources: the row is deleted and the items stay, or the items go with    *)
(* it, or the delete fails and the error reaches the error handler (500).  *)
(***************************************************************************)
IngredientCatalog == SubSeq(FridgeCatalog, 1, 1)

\* DELETE /ingredients/:id
DeleteIngredient(id) ==
    LET referencedByFridge == \E it \in fridgeItems : it.ingredientId = id
        recipeIngredients ==
            \E i \in DOMAIN recipes : \E n \in DOMAIN recipes[i].ingredients :
                recipes[i].ingredients[n] = id
        shoppingItems == {it \in shoppingListItems : it.ingredientId = id}
    IN  IF id \notin ingredients
        THEN /\ res' = Reply(404)
             /\ UNCHANGED <<ingredients, shoppingListItems>>
        ELSE IF referencedByFridge \/ recipeIngredients
        THEN /\ res' = Reply(400)
             /\ UNCHANGED <<ingredients, shoppingListItems>>
        ELSE \/ /\ ingredients' = ingredients \ {id}
                /\ res' = Reply(200)
                /\ UNCHANGED shoppingListItems
             \/ /\ shoppingItems # {}
                /\ ingredients' = ingredients \ {id}
                /\ shoppingListItems' = shoppingListItems \ shoppingItems
                /\ res' = Reply(200)
             \/ /\ shoppingItems # {}
                /\ res' = Reply(500)
                /\ UNCHANGED <<ingredients, shoppingListItems>>

InitIngredients ==
    /\ fridgeItems = InitialFridgeQuantities
    /\ recipes = IngredientCatalog
    /\ favoriteRecipes = {}
    /\ res = NoResponse
    /\ req = NoRequest
    /\ pending = NoPending
    /\ seen = NotSeen
    /\ shoppingListItems = {}
    /\ shoppingLists = ShoppingLists
    /\ ingredients = PantryIngredients

NextIngredients ==
    \/ \E id \in PantryIngredients \cup UnknownIngredientIds :
            /\ DeleteIngredient(id)
            /\ req' = Request("DELETE /ingredients/:id", 0, id, 0)
            /\ UNCHANGED <<fridgeItems, recipes, favoriteRecipes,
                           pending, seen, shoppingLists>>
    \/ \E u \in ActiveUsers, ing \in PantryIngredients :
            /\ PostFridgeQuantity(u, ing, 1)
            /\ req' = Request("POST /fridge", u, ing, 1)
            /\ UNCHANGED <<pending, seen, shoppingListItems,
                           shoppingLists, ingredients>>
    \/ \E u \in ActiveUsers, ing \in PantryIngredients :
            /\ DeleteFridge(u, u, ing)
            /\ req' = ItemRequest("DELETE /fridge/:id", u, u, ing, 0)
            /\ UNCHANGED <<pending, seen, shoppingListItems,
                           shoppingLists, ingredients>>
    \/ \E u \in ActiveUsers, listId \in {l.id : l \in ShoppingLists},
          ing \in PantryIngredients :
            /\ PostShoppingItem(u, listId, ing, 1)
            /\ req' = ListRequest("POST /shopping-lists/:id/items", u, listId,
                                  0, TRUE)
            /\ UNCHANGED <<fridgeItems, recipes, favoriteRecipes,
                           pending, seen, shoppingLists, ingredients>>
    \/ \E u \in ActiveUsers, listId \in {l.id : l \in ShoppingLists},
          itemId \in ItemIds :
            /\ DeleteShoppingItem(u, listId, itemId)
            /\ req' = ListRequest("DELETE /shopping-lists/:listId/items/:itemId",
                                  u, listId, itemId, TRUE)
            /\ UNCHANGED <<fridgeItems, recipes, favoriteRecipes,
                           pending, seen, shoppingLists, ingredients>>

SpecIngredients == InitIngredients /\ [][NextIngredients]_vars

(***************************************************************************)
(* authenticateToken before the protected handlers.  A token is what       *)
(* jwt.verify makes of it: text that is no JWT, or a JWT with its userId,  *)
(* signed with the server's secret or not, expired or not.  The users are  *)
(* the rows of the user table; a deleted user is an id tokens still carry  *)
(* and the table no longer has.  req records the header, whether next()    *)
(* was called (handled) and the req.userId the handler saw.                *)
(***************************************************************************)
DeletedUsers == {3}

NoToken == [kind |-> "none", userId |-> 0, signed |-> FALSE, expired |-> FALSE]

Tokens ==
    {[kind |-> "text", userId |-> 0, signed |-> FALSE, expired |-> FALSE]}
    \cup {[kind |-> "jwt", userId |-> u, signed |-> s, expired |-> e] :
            u \in Users \cup DeletedUsers, s \in BOOLEAN, e \in BOOLEAN}

\* The Authorization header: absent, a scheme alone, or a scheme and a token.
Headers ==
    {[present |-> FALSE, scheme |-> "", token |-> NoToken],
     [present |-> TRUE, scheme |-> "Bearer", token |-> NoToken]}
    \cup {[present |-> TRUE, scheme |-> "Bearer", token |-> t] : t \in Tokens}
    \cup {[present |-> TRUE, scheme |-> "Basic", token |-> t] :
            t \in {x \in Tokens : x.signed /\ ~x.expired /\ x.userId = 1}}

\* authHeader && authHeader.split(" ")[1]
HeaderToken(header) == IF header.present THEN header.token ELSE NoToken

\* jwt.verify returns the payload; it throws a JsonWebTokenError on a token
\* that is no JWT or is not signed with the secret, and a TokenExpiredError,
\* which is a JsonWebTokenError, on an expired one.
JwtVerifies(token) == token.kind = "jwt" /\ token.signed /\ ~token.expired

\* Variant: the user of the token is not looked up.
authenticateToken_NoUserLookup(header) ==
    LET token == HeaderToken(header)
    IN  IF token.kind = "none"
        THEN [next |-> FALSE, status |-> 401, userId |-> 0]
        ELSE IF ~JwtVerifies(token)
        THEN [next |-> FALSE, status |-> 401, userId |-> 0]
        ELSE [next |-> TRUE, status |-> 0, userId |-> token.userId]

\* The outcome of the middleware: the answer it sends, or next() with
\* req.userId set.
authenticateToken(header) ==
    LET token == HeaderToken(header)
    IN  IF token.kind = "none"
        THEN [next |-> FALSE, status |-> 401, userId |-> 0]
        ELSE IF ~JwtVerifies(token)
        THEN [next |-> FALSE, status |-> 401, userId |-> 0]
        ELSE IF token.userId \notin Users
        THEN [next |-> FALSE, status |-> 401, userId |-> 0]
        ELSE [next |-> TRUE, status |-> 0, userId |-> token.userId]

AuthRequest(route, header) ==
    [route |-> route, header |-> header,
     handled |-> authenticateToken(header).next,
     userId |-> authenticateToken(header).userId]

\* router.<method>(path, authenticateToken, handler): the answer of the
\* middleware and nothing else when it does not call next().
Rejected(header) ==
    /\ ~authenticateToken(header).next
    /\ res' = Reply(authenticateToken(header).status)
    /\ UNCHANGED <<fridgeItems, recipes, favoriteRecipes>>

InitAuth ==
    /\ fridgeItems = InitialFridgeItems
    /\ recipes = FridgeCatalog
    /\ favoriteRecipes = {}
    /\ res = NoResponse
    /\ req = NoRequest
    /\ pending = NoPending
    /\ seen = NotSeen
    /\ shoppingListItems = {}
    /\ shoppingLists = ShoppingLists
    /\ ingredients = PantryIngredients

NextAuth ==
    \/ \E header \in Headers :
            /\ \/ Rejected(header)
               \/ /\ authenticateToken(header).next
                  /\ GetSuggestions(authenticateToken(header).userId)
            /\ req' = AuthRequest("GET /recipes/suggestions", header)
            /\ UNCHANGED <<pending, seen, shoppingListItems,
                           shoppingLists, ingredients>>
    \/ \E header \in Headers, ing \in Ingredients :
            /\ \/ Rejected(header)
               \/ /\ authenticateToken(header).next
                  /\ PostFridge(authenticateToken(header).userId, ing)
            /\ req' = AuthRequest("POST /fridge", header)
            /\ UNCHANGED <<pending, seen, shoppingListItems,
                           shoppingLists, ingredients>>
    \/ \E header \in Headers, owner \in Users, ing \in Ingredients :
            /\ \/ Rejected(header)
               \/ /\ authenticateToken(header).next
                  /\ DeleteFridge(authenticateToken(header).userId, owner, ing)
            /\ req' = AuthRequest("DELETE /fridge/:id", header)
            /\ UNCHANGED <<pending, seen, shoppingListItems,
                           shoppingLists, ingredients>>
    \/ \E header \in Headers, id \in MarkableRecipeIds :
            /\ \/ Rejected(header)
               \/ /\ authenticateToken(header).next
                  /\ PostFavorite(authenticateToken(header).userId, id)
            /\ req' = AuthRequest("POST /recipes/:id/favorite", header)
            /\ UNCHANGED <<pending, seen, shoppingListItems,
                           shoppingLists, ingredients>>

SpecAuth == InitAuth /\ [][NextAuth]_vars

(***************************************************************************)
(* Vocabulary of the properties, stated on the database and on the         *)
(* response, not on the handler's intermediate values.                     *)
(***************************************************************************)
Answered == res.route = "GET /recipes/suggestions"

Requester == res.userId

Entries == res.suggestions

Holds(u, ing) == \E it \in fridgeItems : it.userId = u /\ it.ingredientId = ing

FridgeEmpty(u) == \A ing \in Ingredients : ~Holds(u, ing)

IsFavoriteOf(u, id) == [userId |-> u, recipeId |-> id] \in favoriteRecipes

CatalogIds == {recipes[i].id : i \in DOMAIN recipes}

RecipeOf(id) == recipes[CHOOSE i \in DOMAIN recipes : recipes[i].id = id]

LinesOf(id) == RecipeOf(id).ingredients

TotalCount(id) == Len(LinesOf(id))

\* Ingredient lines of the recipe, counted with repetition, held by u.
AvailableCount(u, id) ==
    Cardinality({i \in DOMAIN LinesOf(id) : Holds(u, LinesOf(id)[i])})

\* Distinct ingredients of the recipe held by u.
AvailableDistinct(u, id) ==
    Cardinality({ing \in Ingredients :
        Holds(u, ing) /\ \E i \in DOMAIN LinesOf(id) : LinesOf(id)[i] = ing})

\* The integer nearest to 100 * a / t, halves upwards (t > 0).
RoundPercent(a, t) ==
    CHOOSE k \in 0..100 : 2 * t * k - t <= 200 * a /\ 200 * a < 2 * t * k + t

Occurrences(id) == Cardinality({i \in DOMAIN Entries : Entries[i].id = id})

FavoriteIdsOf(u) == {id \in CatalogIds : IsFavoriteOf(u, id)}

\* Non-favorite recipes of the catalog sharing an ingredient with u's fridge.
EligibleIds(u) ==
    {id \in CatalogIds : ~IsFavoriteOf(u, id) /\ AvailableCount(u, id) > 0}

NonFavoritePositions(u) == {i \in DOMAIN Entries : ~IsFavoriteOf(u, Entries[i].id)}

(***************************************************************************)
(* C1.  With a non-empty fridge, every recipe the requester has marked     *)
(* favorite appears in the returned suggestions exactly once, whatever its *)
(* score.                                                                  *)
(***************************************************************************)
C1_FavoritesReturnedOnce ==
    (Answered /\ ~FridgeEmpty(Requester)) =>
        \A id \in FavoriteIdsOf(Requester) : Occurrences(id) = 1

(***************************************************************************)
(* C2.  As claimed: every returned recipe with at least one ingredient     *)
(* line has compatibilityScore = round(100 * A / T), T its number of       *)
(* lines with repetition and A the number of DISTINCT ingredients of the   *)
(* recipe held in the fridge.                                              *)
(***************************************************************************)
C2_ScoreOverDistinctHeld ==
    Answered =>
        \A i \in DOMAIN Entries :
            TotalCount(Entries[i].id) > 0 =>
                Entries[i].compatibilityScore =
                    RoundPercent(AvailableDistinct(Requester, Entries[i].id),
                                 TotalCount(Entries[i].id))

(***************************************************************************)
(* C2, amended.  Every returned recipe with at least one ingredient line   *)
(* has compatibilityScore = round(100 * A / T), where T is its number of   *)
(* ingredient lines and A the number of those lines, both counted with     *)
(* repetition, whose ingredient is held in the requester's fridge.         *)
(***************************************************************************)
C2_ScoreOverHeldLines ==
    Answered =>
        \A i \in DOMAIN Entries :
            TotalCount(Entries[i].id) > 0 =>
                Entries[i].compatibilityScore =
                    RoundPercent(AvailableCount(Requester, Entries[i].id),
                                 TotalCount(Entries[i].id))

\* A returned recipe repeats an ingredient that the fridge holds.
C2_RepeatedLineReturned ==
    /\ Answered
    /\ \E i \in DOMAIN Entries :
            AvailableCount(Requester, Entries[i].id) >
                AvailableDistinct(Requester, Entries[i].id)

(***************************************************************************)
(* C3.  When the requester's fridge holds no item the returned list is     *)
(* empty, whatever the catalog and the favorites contain.                  *)
(***************************************************************************)
C3_EmptyFridgeEmptyList ==
    (Answered /\ FridgeEmpty(Requester)) => Entries = <<>>

\* Answered for an empty fridge while the requester has favorites, one of
\* them a recipe without ingredient lines.
C3_EmptyFridgeWithFavorites ==
    /\ Answered
    /\ FridgeEmpty(Requester)
    /\ \E id \in FavoriteIdsOf(Requester) : TotalCount(id) = 0
    /\ \E id \in FavoriteIdsOf(Requester) : TotalCount(id) > 0

(***************************************************************************)
(* C4.  In the returned list the non-favorite entries are in               *)
(* non-increasing order of compatibilityScore.                             *)
(***************************************************************************)
C4_NonFavoritesDescending ==
    Answered =>
        \A i, j \in NonFavoritePositions(Requester) :
            i < j => Entries[i].compatibilityScore >= Entries[j].compatibilityScore

\* A returned list with non-favorite entries of three different scores.
C4_ThreeScoresReturned ==
    /\ Answered
    /\ Cardinality({Entries[i].compatibilityScore :
                        i \in NonFavoritePositions(Requester)}) >= 3

(***************************************************************************)
(* C5.  No recipe that is not a favorite of the requester and shares no    *)
(* ingredient with the requester's fridge appears in the returned list.    *)
(***************************************************************************)
C5_NoUnsharedNonFavorite ==
    Answered =>
        \A i \in DOMAIN Entries :
            IsFavoriteOf(Requester, Entries[i].id)
                \/ AvailableCount(Requester, Entries[i].id) > 0

\* A non-empty list returned while the catalog holds a non-favorite recipe
\* with ingredients, none of them in the fridge.
C5_UnsharedRecipeLeftOut ==
    /\ Answered
    /\ Entries # <<>>
    /\ \E id \in CatalogIds :
            /\ ~IsFavoriteOf(Requester, id)
            /\ TotalCount(id) > 0
            /\ AvailableCount(Requester, id) = 0

(***************************************************************************)
(* C6.  The returned list never has more than resultLimit = 10 entries.    *)
(***************************************************************************)
C6_AtMostResultLimit == Answered => Len(Entries) <= ResultLimit

\* More than ten recipes qualify and ten are returned.
C6_LimitReached ==
    /\ Answered
    /\ Cardinality(EligibleIds(Requester)) > ResultLimit
    /\ Len(Entries) = ResultLimit

(***************************************************************************)
(* C7.  The returned list is the requester's favorites followed by the     *)
(* selected non-favorites, truncated to 10: the favorites (up to ten of    *)
(* them) are in the list and every favorite entry precedes every           *)
(* non-favorite entry.                                                     *)
(***************************************************************************)
C7_FavoritesThenOthers ==
    (Answered /\ ~FridgeEmpty(Requester)) =>
        LET favoritesReturned == DOMAIN Entries \ NonFavoritePositions(Requester)
        IN  /\ Cardinality(favoritesReturned) =
                    Min(Cardinality(FavoriteIdsOf(Requester)), ResultLimit)
            /\ \A i \in favoritesReturned, j \in NonFavoritePositions(Requester) :
                    i < j

(***************************************************************************)
(* C8.  Each favorite recipe the handler puts in its output carries its    *)
(* true compatibilityScore round(100 * available / total) and its true     *)
(* missingIngredientsCount; it is never forced to 100 or to 0 missing.     *)
(***************************************************************************)
C8_FavoritesCarryTrueScore ==
    (Answered /\ ~FridgeEmpty(Requester)) =>
        LET payload == favoriteRecipesPayload(Requester)
        IN  \A i \in DOMAIN payload :
                /\ payload[i].missingIngredientsCount =
                        TotalCount(payload[i].id)
                            - AvailableCount(Requester, payload[i].id)
                /\ TotalCount(payload[i].id) > 0 =>
                        payload[i].compatibilityScore =
                            RoundPercent(AvailableCount(Requester, payload[i].id),
                                         TotalCount(payload[i].id))

(***************************************************************************)
(* C9.  With F favorites of the requester and E non-favorite recipes of    *)
(* score > 0, exactly min(E, max(10 - F, 0)) non-favorite entries are      *)
(* returned; with 10 or more favorites, none.                              *)
(***************************************************************************)
C9_NonFavoriteCount ==
    Answered =>
        Cardinality(NonFavoritePositions(Requester)) =
            Min(Cardinality(EligibleIds(Requester)),
                MathMax(ResultLimit - Cardinality(FavoriteIdsOf(Requester)), 0))

\* Ten favorites, a qualifying non-favorite recipe, and nothing returned.
C9_TenFavoritesNoOther ==
    /\ Answered
    /\ Cardinality(FavoriteIdsOf(Requester)) >= ResultLimit
    /\ EligibleIds(Requester) # {}
    /\ NonFavoritePositions(Requester) = {}

(***************************************************************************)
(* C10.  For every returned entry, missingIngredientsCount +               *)
(* availableCount = totalCount, over the recipe's ingredient lines.        *)
(***************************************************************************)
C10_MissingPlusAvailable ==
    Answered =>
        \A i \in DOMAIN Entries :
            Entries[i].missingIngredientsCount
                + AvailableCount(Requester, Entries[i].id)
                    = TotalCount(Entries[i].id)

\* A returned recipe repeats an ingredient the fridge lacks and has one it holds.
C10_PartlyAvailableReturned ==
    /\ Answered
    /\ \E i \in DOMAIN Entries :
            /\ Entries[i].missingIngredientsCount >= 2
            /\ AvailableCount(Requester, Entries[i].id) >= 1

(***************************************************************************)
(* C11.  For every returned entry, isFavorite is true if and only if the   *)
(* recipe is among the requester's favorite recipes.                       *)
(***************************************************************************)
C11_IsFavoriteIffMarked ==
    Answered =>
        \A i \in DOMAIN Entries :
            Entries[i].isFavorite <=> IsFavoriteOf(Requester, Entries[i].id)

\* Entries are returned to a requester who has a favorite sharing an
\* ingredient with the fridge.
C11_ReturnedWhileFavoritesExist ==
    /\ Answered
    /\ Entries # <<>>
    /\ \E id \in FavoriteIdsOf(Requester) : AvailableCount(Requester, id) > 0

(***************************************************************************)
(* C12.  For every returned entry, compatibilityScore is an integer        *)
(* between 0 and 100.                                                      *)
(***************************************************************************)
C12_ScoreIsPercentage ==
    Answered =>
        \A i \in DOMAIN Entries : Entries[i].compatibilityScore \in 0..100

\* A returned list holds a recipe of score 100 that repeats an ingredient
\* and a recipe of a lower score.
C12_FullAndPartialReturned ==
    /\ Answered
    /\ \E i, j \in DOMAIN Entries :
            /\ Entries[i].compatibilityScore = 100
            /\ AvailableCount(Requester, Entries[i].id) >
                    AvailableDistinct(Requester, Entries[i].id)
            /\ Entries[j].compatibilityScore < 100

(***************************************************************************)
(* C13.  A recipe without ingredient lines has compatibilityScore 0; with  *)
(* a non-empty fridge it is absent from the returned list when it is not a *)
(* favorite of the requester, and present in it, with score 0, when it is. *)
(***************************************************************************)
C13_EmptyRecipeOnlyAsFavorite ==
    (Answered /\ ~FridgeEmpty(Requester)) =>
        \A id \in CatalogIds :
            TotalCount(id) = 0 =>
                /\ MathRound(score(RecipeOf(id), Requester)) = 0
                /\ IF IsFavoriteOf(Requester, id)
                   THEN /\ Occurrences(id) = 1
                        /\ \A i \in DOMAIN Entries :
                                Entries[i].id = id =>
                                    Entries[i].compatibilityScore = 0
                   ELSE Occurrences(id) = 0

(***************************************************************************)
(* Vocabulary of the properties about the fridge with quantities.          *)
(***************************************************************************)
ItemsOf(u) == {it \in fridgeItems : it.userId = u}

HeldIds(u) == {it.ingredientId : it \in ItemsOf(u)}

\* Recipes of the catalog that share an ingredient with u's fridge.
PositiveIds(u) == {id \in CatalogIds : AvailableCount(u, id) > 0}

\* available / total of recipe a is strictly above that of recipe b.
ExactScoreAbove(u, a, b) ==
    AvailableCount(u, a) * TotalCount(b) > AvailableCount(u, b) * TotalCount(a)

ReturnedIds == {Entries[i].id : i \in DOMAIN Entries}

(***************************************************************************)
(* C14.  When the requester has no favorite, the returned list holds       *)
(* exactly min(n, 10) distinct recipes among the n recipes of score > 0,   *)
(* and no recipe of score > 0 left out of it has a strictly higher score   *)
(* than a recipe in it.                                                    *)
(***************************************************************************)
C14_TopScoresWithoutFavorites ==
    (Answered /\ FavoriteIdsOf(Requester) = {}) =>
        /\ Len(Entries) = Min(Cardinality(PositiveIds(Requester)), ResultLimit)
        /\ Cardinality(ReturnedIds) = Len(Entries)
        /\ ReturnedIds \subseteq PositiveIds(Requester)
        /\ \A out \in PositiveIds(Requester) \ ReturnedIds, in \in ReturnedIds :
                /\ ~ExactScoreAbove(Requester, out, in)
                /\ \A i \in DOMAIN Entries :
                        Entries[i].id = in =>
                            RoundPercent(AvailableCount(Requester, out),
                                         TotalCount(out))
                                <= Entries[i].compatibilityScore

\* No favorite, more than ten recipes of score > 0, and a recipe left out
\* scores strictly less than one returned.
C14_LowerScoresLeftOut ==
    /\ Answered
    /\ FavoriteIdsOf(Requester) = {}
    /\ Cardinality(PositiveIds(Requester)) > ResultLimit
    /\ \E out \in PositiveIds(Requester) \ ReturnedIds, in \in ReturnedIds :
            ExactScoreAbove(Requester, in, out)

(***************************************************************************)
(* C15.  Two fridge states of one user that hold the same set of           *)
(* ingredient ids and differ in quantities yield the same suggestions,     *)
(* scores and missing counts included, for the same catalog and the same   *)
(* favorites: the list answered in the one is the list the handler gives   *)
(* in the other.                                                           *)
(***************************************************************************)
C15_QuantityAgnostic ==
    \A u \in Users :
        (/\ seen.userId = u
         /\ {it.ingredientId : it \in seen.items} = HeldIds(u)
         /\ seen.favorites = FavoriteIdsOf(u))
            => responseSuggestions(u) = seen.suggestions

\* A non-empty list was answered and the requester's fridge now holds the
\* same ingredients, one of them in another quantity.
C15_QuantityChangedSinceAnswer ==
    /\ seen.userId \in Users
    /\ seen.suggestions # <<>>
    /\ {it.ingredientId : it \in seen.items} = HeldIds(seen.userId)
    /\ seen.favorites = FavoriteIdsOf(seen.userId)
    /\ seen.items # ItemsOf(seen.userId)

(***************************************************************************)
(* C16.  Handling GET /recipes/suggestions leaves the fridge items, the    *)
(* recipes with their ingredient lines and the favorite marks unchanged,   *)
(* on the empty-fridge path and on the scoring path.                       *)
(***************************************************************************)
C16_SuggestionsLeaveStoreUnchanged ==
    [][req'.route = "GET /recipes/suggestions"
            => UNCHANGED <<fridgeItems, recipes, favoriteRecipes>>]_vars

\* The request was answered on the scoring path for a user with a favorite.
C16_AnsweredOnScoringPath ==
    /\ req.route = "GET /recipes/suggestions"
    /\ Answered
    /\ Entries # <<>>
    /\ FavoriteIdsOf(Requester) # {}

(***************************************************************************)
(* C17.  The list GET /recipes/suggestions answers, with requests of the   *)
(* same user handled while it awaits, is the list that the fridge, the     *)
(* favorites and the catalog of one single instant between its first read  *)
(* and its answer produce; in particular no returned entry is marked       *)
(* isFavorite while it is ranked among the non-favorites.                  *)
(***************************************************************************)
C17_OneConsistentSnapshot ==
    (Answered /\ pending.pc = "done") =>
        /\ Entries \in pending.instants
        /\ \A i \in DOMAIN Entries : ~Entries[i].isFavorite

(***************************************************************************)
(* C18.  Two system states in which a user has the same fridge items and   *)
(* the same favorite marks, with the same catalog, yield the same          *)
(* suggestions for that user, whatever fridge items and favorite marks     *)
(* the other users have in each.                                           *)
(***************************************************************************)
C18_OtherUsersDoNotMatter ==
    \A u \in Users :
        (/\ seen.userId = u
         /\ seen.items = ItemsOf(u)
         /\ seen.favorites = FavoriteIdsOf(u))
            => responseSuggestions(u) = seen.suggestions

\* The first user was answered a non-empty list while the second user had
\* no row; the second user now holds an ingredient the first lacks and has
\* marked a recipe of that list.
C18_OtherUserChangedSinceAnswer ==
    /\ seen.userId = 1
    /\ seen.alone
    /\ seen.items = ItemsOf(1)
    /\ seen.favorites = FavoriteIdsOf(1)
    /\ \E ing \in PantryIngredients : Holds(2, ing) /\ ~Holds(1, ing)
    /\ \E i \in DOMAIN seen.suggestions :
            IsFavoriteOf(2, seen.suggestions[i].id)

(***************************************************************************)
(* C19.  A POST /fridge for a known ingredient adds or increments: when    *)
(* the user holds an item for the ingredient, the items stay as many, that *)
(* item's quantity becomes its old quantity plus the posted one and the    *)
(* response is 200; otherwise exactly one item with the posted quantity is *)
(* created and the response is 201.  Hence the quantity stored after a     *)
(* sequence of such calls is the sum of the posted quantities.             *)
(***************************************************************************)
C19_PostFridgeAddsOrIncrements ==
    [][(req'.route = "POST /fridge" /\ req'.ingredientId \in PantryIngredients)
            => LET u == req'.userId
                   ing == req'.ingredientId
                   old == {it \in fridgeItems :
                              it.userId = u /\ it.ingredientId = ing}
               IN  IF old # {}
                   THEN /\ res'.status = 200
                        /\ fridgeItems' = (fridgeItems \ old) \cup
                              {[userId |-> u, ingredientId |-> ing,
                                quantity |-> it.quantity + req'.quantity] :
                                    it \in old}
                   ELSE /\ res'.status = 201
                        /\ fridgeItems' = fridgeItems \cup
                              {[userId |-> u, ingredientId |-> ing,
                                quantity |-> req'.quantity]}]_vars

\* A POST /fridge has just incremented an item to the quantity 3.
C19_IncrementedTwice ==
    /\ req.route = "POST /fridge"
    /\ res.status = 200
    /\ req.quantity = 1
    /\ \E it \in ItemsOf(req.userId) :
            it.ingredientId = req.ingredientId /\ it.quantity >= 3

(***************************************************************************)
(* C20.  After any sequence of item operations by its owner (POST, PUT,    *)
(* PATCH, DELETE of items), a shopping list holds at most one item per     *)
(* ingredient.                                                             *)
(***************************************************************************)
C20_OneItemPerIngredient ==
    \A l \in ShoppingLists, ing \in PantryIngredients :
        Cardinality({it \in shoppingListItems :
            it.shoppingListId = l.id /\ it.ingredientId = ing}) <= 1
(***************************************************************************)
(* Ownership of fridge items                                               *)
(***************************************************************************)
ItemRoutes == {"PUT /fridge/:id", "DELETE /fridge/:id"}

\* The request names an item that exists and belongs to the requester.
OwnsNamedItem(r) ==
    /\ r.ownerId = r.userId
    /\ Holds(r.ownerId, r.ingredientId)

\* C21: a PUT or DELETE /fridge/:id whose id names no item of the requester
\* (another user's item, or no item at all) leaves every fridge item
\* unchanged and answers 404, except that a PUT whose body does not parse
\* answers 400; whatever a PUT or DELETE changes or removes belonged to the
\* requester.
C21_OnlyOwnerChangesItem ==
    [][req'.route \in ItemRoutes =>
        /\ \A it \in fridgeItems \ fridgeItems' : it.userId = req'.userId
        /\ \A it \in fridgeItems' \ fridgeItems : it.userId = req'.userId
        /\ ~OwnsNamedItem(req') =>
              /\ fridgeItems' = fridgeItems
              /\ res'.status =
                    IF /\ req'.route = "PUT /fridge/:id"
                       /\ req'.quantity \in InvalidQuantities
                    THEN 400 ELSE 404]_vars

\* C21 as stated: every such request answers 404.
C21_NotOwnerAlways404 ==
    [][(req'.route \in ItemRoutes /\ ~OwnsNamedItem(req')) =>
        /\ fridgeItems' = fridgeItems
        /\ res'.status = 404]_vars

\* C21 witness: a user asked to delete an item another user holds, was
\* answered 404, and the item is still there.
C21_OtherUsersItemRefused ==
    /\ req.route = "DELETE /fridge/:id"
    /\ req.ownerId # req.userId
    /\ res.status = 404
    /\ Holds(req.ownerId, req.ingredientId)

(***************************************************************************)
(* Ownership of shopping lists                                             *)
(***************************************************************************)
ItemOperations ==
    {"PUT /shopping-lists/:listId/items/:itemId",
     "PATCH /shopping-lists/:listId/items/:itemId",
     "DELETE /shopping-lists/:listId/items/:itemId"}

ListOperations ==
    {"GET /shopping-lists/:id", "DELETE /shopping-lists/:id",
     "POST /shopping-lists/:id/items"} \cup ItemOperations

\* The list of the request belongs to the requester and, for an operation on
\* an item, the item is in that list.
NamesOwnList(r) ==
    /\ \E l \in shoppingLists : l.id = r.listId /\ l.userId = r.userId
    /\ r.route \in ItemOperations =>
          \E it \in shoppingListItems :
              it.id = r.itemId /\ it.shoppingListId = r.listId

\* C22: an operation that names a list touches only items of that list, and
\* when the list is not the requester's, or the item is not in the list, no
\* list and no item is created, changed or deleted and the answer is 404,
\* or 400 when the body of a POST, PUT or PATCH does not parse.
C22_OnlyOwnListTouched ==
    [][req'.route \in ListOperations =>
        /\ \A it \in (shoppingListItems \ shoppingListItems')
                        \cup (shoppingListItems' \ shoppingListItems) :
                it.shoppingListId = req'.listId
        /\ \A l \in (shoppingLists \ shoppingLists')
                       \cup (shoppingLists' \ shoppingLists) :
                l.id = req'.listId /\ l.userId = req'.userId
        /\ ~NamesOwnList(req') =>
              /\ shoppingLists' = shoppingLists
              /\ shoppingListItems' = shoppingListItems
              /\ res'.status = IF req'.parses THEN 404 ELSE 400]_vars

\* C22 as stated: every such operation answers 404.
C22_NotOwnListAlways404 ==
    [][(req'.route \in ListOperations /\ ~NamesOwnList(req')) =>
        /\ shoppingLists' = shoppingLists
        /\ shoppingListItems' = shoppingListItems
        /\ res'.status = 404]_vars

\* C22 witness: a user who owns a list asked to delete, under that list, an
\* item that sits in another user's list, was answered 404, and the item is
\* still there.
C22_ItemOfAnotherListRefused ==
    /\ req.route = "DELETE /shopping-lists/:listId/items/:itemId"
    /\ res.status = 404
    /\ \E l \in shoppingLists : l.id = req.listId /\ l.userId = req.userId
    /\ \E it \in shoppingListItems :
          /\ it.id = req.itemId
          /\ it.shoppingListId # req.listId
          /\ \E l \in shoppingLists :
                l.id = it.shoppingListId /\ l.userId # req.userId

(***************************************************************************)
(* Favorites and the catalog                                               *)
(***************************************************************************)
Mark(r) == [userId |-> r.userId, recipeId |-> r.recipeId]

\* C23: POST /recipes/:id/favorite answers 404 on an unknown recipe and 400
\* on a recipe the user has already marked, DELETE /recipes/:id/favorite
\* answers 404 on a recipe the user has not marked, and each of these leaves
\* the favorites as they were; otherwise POST adds and DELETE removes exactly
\* the mark of (user, recipe) and answers 200; and no (user, recipe) is ever
\* marked more than once.
C23_FavoriteProtocol ==
    [][/\ req'.route = "POST /recipes/:id/favorite" =>
            IF ~RecipeExists(req'.recipeId)
            THEN res'.status = 404 /\ favoriteRecipes' = favoriteRecipes
            ELSE IF Mark(req') \in favoriteRecipes
            THEN res'.status = 400 /\ favoriteRecipes' = favoriteRecipes
            ELSE /\ res'.status = 200
                 /\ favoriteRecipes' = favoriteRecipes \cup {Mark(req')}
       /\ req'.route = "DELETE /recipes/:id/favorite" =>
            IF Mark(req') \notin favoriteRecipes
            THEN res'.status = 404 /\ favoriteRecipes' = favoriteRecipes
            ELSE /\ res'.status = 200
                 /\ favoriteRecipes' = favoriteRecipes \ {Mark(req')}
       /\ \A u \in Users, id \in CatalogMarkableIds :
            Cardinality({f \in favoriteRecipes' :
                            f.userId = u /\ f.recipeId = id}) <= 1]_vars

\* C23 witness: a user posted a favorite on a recipe already marked, was
\* answered 400, and the mark is still there.
C23_SecondPostRefused ==
    /\ req.route = "POST /recipes/:id/favorite"
    /\ res.status = 400
    /\ Mark(req) \in favoriteRecipes

\* C24: DELETE /recipes/:id answers 404 for an unknown id; for an existing
\* recipe that the requester did not create, or whose source is neither
\* "user" nor "ai_generated", it answers 403 and the catalog is unchanged;
\* and a recipe leaves the catalog only by a DELETE of its creator on a
\* recipe of one of these two sources.
C24_OnlyCreatorDeletesOwnRecipe ==
    [][/\ req'.route = "DELETE /recipes/:id" =>
            IF ~RecipeExists(req'.recipeId)
            THEN res'.status = 404 /\ recipes' = recipes
            ELSE LET r == RecipeOf(req'.recipeId)
                 IN  (r.createdById # req'.userId
                        \/ r.source \notin {"user", "ai_generated"}) =>
                            res'.status = 403 /\ recipes' = recipes
       /\ \A i \in DOMAIN recipes :
            (~\E j \in DOMAIN recipes' : recipes'[j].id = recipes[i].id) =>
                /\ req'.route = "DELETE /recipes/:id"
                /\ req'.recipeId = recipes[i].id
                /\ req'.userId = recipes[i].createdById
                /\ recipes[i].source \in {"user", "ai_generated"}]_vars

\* C24 witness: the creator of an imported recipe asked to delete it, was
\* answered 403 and the recipe is in the catalog, while a recipe of source
\* "user" has been deleted.
C24_ImportedRecipeKept ==
    /\ req.route = "DELETE /recipes/:id"
    /\ res.status = 403
    /\ RecipeExists(req.recipeId)
    /\ RecipeOf(req.recipeId).createdById = req.userId
    /\ RecipeOf(req.recipeId).source = "imported"
    /\ Len(recipes) < Len(MixedCatalog)

NothingMissingIds(u) ==
    {id \in CatalogIds : missingIngredients(RecipeOf(id), u) = 0}

\* C26: a GET /recipes that asks for the makeable recipes is answered with
\* exactly the recipes of which the requester misses no ingredient.
C26_MakeableAnswerIsNothingMissing ==
    (req.route = "GET /recipes" /\ "makeable" \in req.query.given) =>
        /\ res.status = 200
        /\ res.recipes = NothingMissingIds(req.userId)

\* C26, on the filter alone: the recipes it keeps are those of which the
\* user misses no ingredient, and their score is 100.
C26_FilterKeepsNothingMissing ==
    \A u \in Users :
        /\ recipeIds(u) = NothingMissingIds(u)
        /\ \A id \in recipeIds(u) :
              TotalCount(id) > 0 => MathRound(score(RecipeOf(id), u)) = 100

(***************************************************************************)
(* Authentication                                                          *)
(***************************************************************************)
ProtectedRoutes ==
    {"GET /recipes/suggestions", "POST /fridge", "DELETE /fridge/:id",
     "POST /recipes/:id/favorite"}

\* The request carries a token that verifies and names a user of the table.
CarriesGoodToken(r) ==
    /\ r.header.present
    /\ r.header.token.kind = "jwt"
    /\ r.header.token.signed
    /\ ~r.header.token.expired
    /\ r.header.token.userId \in Users

====
